---- MODULE Spec2Model ----
(***************************************************************************)
(* Background job lifecycle of yt_playlist_downloader (cli.py): the job    *)
(* descriptor store logs/background.pid, the launcher, the log follower    *)
(* and the canceller, run by interactive sessions beside the detached      *)
(* worker processes they spawn.                                            *)
(*                                                                         *)
(* Granularity: one step per file operation or system call of cli.py.      *)
(* Operating-system behaviour the code relies on is modelled as POSIX      *)
(* defines it: kill(pid, 0) succeeds for an exited child that has not been *)
(* waited for; a write through a descriptor whose file was unlinked does   *)
(* not reach the path; open(.., "w") truncates in place; a child whose     *)
(* parent ends is re-parented and reaped by init.  os.remove of an         *)
(* existing file is taken to succeed (its OSError branch is swallowed by   *)
(* the code and needs a directory that lost write permission).             *)
(***************************************************************************)
EXTENDS Integers, Sequences, FiniteSets, TLC

\* ------------------------------------------------------------- bounds
MaxWorkers == 2      \* how many Popen calls can succeed in one run of the model
FirstPid == 9        \* the first pid the operating system hands out
MaxLog == 2          \* lines the workers can append to logs/background.log
MaxPid == 12         \* the pids saved and loaded back on their own
MaxCount == 8        \* the largest last_videos_count asked for
MaxTotal == 8        \* the largest playlist

\* ------------------------------------------------------------- universe
Sessions == {1, 2}
Workers == FirstPid .. (FirstPid + MaxWorkers - 1)
\* a live process of another user that leads its own process group
OtherUserPid == FirstPid + MaxWorkers
UserPids == Workers \cup {OtherUserPid}
\* Python's None for Optional[int]; also "no parent session" (init) for a process
None == 0
\* a character that is no decimal digit
NonDigit == 10

VARIABLES
    sess,      \* per session: position in cli.py and its local variables
    pidFile,   \* logs/background.pid: [exists, text], text a sequence of characters
    log,       \* logs/background.log: the number of lines appended to it so far
    status,    \* per worker pid: "none" | "run" | "zombie" (exited, not waited for) | "gone"
    parent,    \* per worker pid: the session process that is its parent, None once orphaned
    kid,       \* per worker: the subprocess it has in its group now: "none" | "run"
    sigs,      \* per worker: signals delivered to the worker process while it runs
    kidSigs,   \* per worker: signals delivered to its subprocess while it runs
    nextPid,   \* the pid the next successful Popen gets
    call       \* a function run on its own: its arguments and what it gave

vars == <<sess, pidFile, log, status, parent, kid, sigs, kidSigs, nextPid, call>>
procVars == <<status, parent, kid, sigs, kidSigs, nextPid>>

\* ------------------------------------------------------------- text <-> int
RECURSIVE Str(_)
\* str(pid): the decimal digits of a non-negative integer
Str(n) == IF n < 10 THEN <<n>> ELSE Append(Str(n \div 10), n % 10)

\* whether int(text.strip()) succeeds (texts here hold digits or NonDigit only)
IsInt(text) == Len(text) > 0 /\ \A i \in 1..Len(text) : text[i] \in 0..9

RECURSIVE ParseInt(_)
\* int(text) for a text of digits
ParseInt(text) ==
    IF Len(text) = 0 THEN 0
    ELSE ParseInt(SubSeq(text, 1, Len(text) - 1)) * 10 + text[Len(text)]

\* write(2) of `new` at offset 0 of a file holding `old`
Overlay(old, new) == new \o SubSeq(old, Len(new) + 1, Len(old))

NoFile == [exists |-> FALSE, text |-> <<>>]

\* ------------------------------------------------------------- messages
MsgLaunched == "Telechargement lance en arriere-plan"
MsgNoAction == "Aucune action effectuee"
MsgInvalid == "PID invalide"
MsgNotActive == "Aucun telechargement en arriere-plan actif avec le PID"
MsgForbidden == "Permission refusee"
MsgCancelled == "annule"
MsgFinished == "Telechargement d'arriere-plan termine"
MsgInterrupted == "Suivi interrompu par l'utilisateur"

\* the completion notice in the follower's output (log lines are numbered from 1)
Notice == 0

\* ------------------------------------------------------------- config.py
\* DEFAULT_CONFIG, lines 9-14
DEFAULT_CONFIG ==
    [download_dir |-> "downloads", cookies_path |-> "./cookies.txt",
     max_quality_height |-> 1080, archive_path |-> "logs/download_archive.txt"]

\* the default cookies path of earlier versions (line 26)
LegacyCookies == "config/cookies.txt"

\* config/config.json is not there
NoConfig == [kind |-> "missing", data |-> <<>>]

\* ------------------------------------------------------------- job parameters
\* a Python str, kept as whether it begins with "-" and what follows; None apart
Txt(d, r) == [none |-> FALSE, dash |-> d, rest |-> r]
NoText == [none |-> TRUE, dash |-> FALSE, rest |-> ""]

\* the truth value of an Optional[str]: None and "" are false
Truthy(t) == ~t.none /\ (t.dash \/ t.rest # "")

\* max_quality_height is None (cli.py line 203, worker.py line 25)
NoCeiling == -1

\* what a call of download_playlist is given
NoJob ==
    [playlist_url |-> NoText, download_dir |-> NoText, cookies_path |-> NoText,
     last_videos_count |-> 0, max_quality_height |-> NoCeiling,
     archive_path |-> NoText]

\* what download_playlist hands to the fetch library: cookies file, playlist
\* range, format ceiling and archive
NoSelection ==
    [cookiefile |-> NoText, range |-> <<1, None>>, ceiling |-> NoCeiling,
     archive |-> NoText]

\* the command line of the worker: the values that follow each option
NoCmd ==
    [playlist_url |-> NoText, download_dir |-> NoText, last_videos |-> <<>>,
     max_quality_height |-> <<>>, archive_path |-> NoText, cookies_path |-> NoText]

\* ------------------------------------------------------------- session state
LaunchPcs == {"l_mkdir", "l_open", "l_spawn", "s_open", "s_write"}
FollowPcs == {"f_open", "f_seek", "f_read", "f_poll", "f_drain", "f_notice"}
CancelPcs == {"c_load", "c_prompt", "c_alive", "c_kill", "c_tail"}
ClearPcs == {"k_exists", "k_read", "k_remove"}
EndedPcs == {"exited", "crashed"}
\* a launch that has spawned its worker and whose follower has not sought yet
BeforeSeekPcs == {"s_open", "s_write", "f_open", "f_seek"}

InitSess ==
    [pc |-> "menu", op |-> "none",
     proc |-> None,            \* proc.pid of the Popen handle held by launch
     pos |-> 0,                \* read offset of the follower in the log (lines)
     out |-> <<>>,             \* what the follower printed: line numbers, Notice
     start |-> 0,              \* the offset the follower sought to (the end of the log then)
     skipped |-> 0,            \* lines proc appended to the log before the follower's seek
     exitAt |-> 0,             \* the number of lines in the log when proc exited
     saved_pid |-> None, pid |-> None, byDefault |-> FALSE,
     raw |-> <<>>,             \* what the user typed at the prompt of cancel
     expected_pid |-> None,
     ret |-> "return",         \* where _clear_background_pid returns to
     fd |-> FALSE,             \* the pid file is open for writing and still linked
     outcome |-> "none",       \* what os.killpg did: "ok" | "ESRCH" | "EPERM"
     report |-> "none",        \* the last message printed
     err |-> "none",           \* the exception that ended the session
     nWrites |-> 0,            \* writes to the pid file by the current launch
     pre |-> NoFile,           \* the pid file when the current cancel/_save/_clear was entered
     cDead |-> FALSE,          \* cancel took the default target and its process had exited
     cSent |-> {}]             \* the processes the current cancel signalled

OffSess == [InitSess EXCEPT !.pc = "off"]

\* no function is run on its own
NoCall == [pc |-> "none"]

\* ------------------------------------------------------------- processes
Leader(w) == <<w, "leader">>
Kid(w) == <<w, "kid">>

\* mutant: the worker is left in the session and process group of its parent
start_new_session_off == FALSE

\* start_new_session=True in the Popen call
start_new_session == TRUE

\* the live processes of process group pgid
Group(pgid) ==
    IF pgid \in Workers /\ start_new_session
    THEN (IF status[pgid] \in {"run", "zombie"} THEN {Leader(pgid)} ELSE {})
         \cup (IF kid[pgid] = "run" THEN {Kid(pgid)} ELSE {})
    ELSE {}

\* os.kill(pid, 0)
KillZero(pid) ==
    IF pid = OtherUserPid THEN "EPERM"
    ELSE IF pid \in Workers /\ status[pid] \in {"run", "zombie"} THEN "ok"
    ELSE "ESRCH"

_process_alive(pid) == KillZero(pid) # "ESRCH"

\* the result of os.killpg(pid, SIGTERM)
KillpgResult(pid) ==
    IF pid = OtherUserPid THEN "EPERM"
    ELSE IF Group(pid) = {} THEN "ESRCH"
    ELSE "ok"

\* mutant: os.kill(pid, SIGTERM) signals the one process
kill_leader_only(pid) == Group(pid) \cap {Leader(pid)}

\* the processes os.killpg(pid, SIGTERM) signals
killpg(pid) == Group(pid)

\* the workers in the terminal's foreground process group of session s
Foreground(s) ==
    {w \in Workers : ~start_new_session /\ parent[w] = s /\ status[w] = "run"}

\* the process has exited (reaped or not)
Exited(p) == p \in Workers /\ status[p] \in {"zombie", "gone"}

\* ------------------------------------------------------------- the store
_load_background_pid ==
    IF pidFile.exists /\ IsInt(pidFile.text) THEN ParseInt(pidFile.text) ELSE None

\* the text _save_background_pid writes
SavedText(pid) == Str(pid)

\* the pid file f holds pid p
Holds(f, p) == f.exists /\ IsInt(f.text) /\ ParseInt(f.text) = p

\* mutant: the comparison with expected_pid is lost
ClearSkipsNever(current_pid, expected_pid) == FALSE

\* mutant: the comparison is inverted
ClearSkipsInverted(current_pid, expected_pid) == current_pid = expected_pid

\* line 39: the stored pid is not the expected one, so the delete is skipped
ClearSkips(current_pid, expected_pid) == current_pid # expected_pid

TypeOK ==
    /\ pidFile.exists \in BOOLEAN
    /\ log \in 0..MaxLog
    /\ \A s \in Sessions : sess[s].pc \in
          {"menu", "off", "loaded"} \cup LaunchPcs \cup FollowPcs \cup CancelPcs \cup ClearPcs \cup EndedPcs
    /\ \A w \in Workers : status[w] \in {"none", "run", "zombie", "gone"}
    /\ call.pc \in {"none", "r_call", "r_done", "g_call", "g_done", "raised",
                    "j_call", "j_cmd", "j_parse", "j_main", "j_done", "j_usage"}

InitProcs ==
    /\ pidFile = NoFile
    /\ log = 0
    /\ status = [w \in Workers |-> "none"]
    /\ parent = [w \in Workers |-> None]
    /\ kid = [w \in Workers |-> "none"]
    /\ sigs = [w \in Workers |-> {}]
    /\ kidSigs = [w \in Workers |-> {}]
    /\ nextPid = FirstPid

\* one interactive session
Init ==
    /\ InitProcs
    /\ call = NoCall
    /\ sess = [s \in Sessions |-> IF s = 1 THEN InitSess ELSE OffSess]

\* two interactive sessions in the same working directory
InitRace == InitProcs /\ call = NoCall /\ sess = [s \in Sessions |-> InitSess]

Set(s, r) == sess' = [sess EXCEPT ![s] = r]

\* the session process ends: its children are re-parented to init, which
\* reaps those that have already exited
Orphan(s) ==
    /\ parent' = [w \in Workers |-> IF parent[w] = s THEN None ELSE parent[w]]
    /\ status' = [w \in Workers |->
                    IF parent[w] = s /\ status[w] = "zombie" THEN "gone" ELSE status[w]]

\* an exception nobody catches reaches main, which handles KeyboardInterrupt only
Die(s, e) ==
    /\ Set(s, [sess[s] EXCEPT !.pc = "crashed", !.err = e, !.fd = FALSE])
    /\ Orphan(s)
    /\ UNCHANGED <<pidFile, log, kid, sigs, kidSigs, nextPid, call>>

\* ------------------------------------------------------------- the menu (main)
\* choice "1", background execution accepted: start_download_menu calls launch
ChooseLaunch(s) ==
    /\ sess[s].pc = "menu"
    /\ Set(s, [InitSess EXCEPT !.pc = "l_mkdir", !.op = "launch"])
    /\ UNCHANGED <<pidFile, log, procVars, call>>

\* choice "3"
ChooseCancel(s) ==
    /\ sess[s].pc = "menu"
    /\ Set(s, [InitSess EXCEPT !.pc = "c_load", !.op = "cancel", !.pre = pidFile])
    /\ UNCHANGED <<pidFile, log, procVars, call>>

\* choice "4": the interactive process ends
Quit(s) ==
    /\ sess[s].pc = "menu"
    /\ Set(s, [sess[s] EXCEPT !.pc = "exited"])
    /\ Orphan(s)
    /\ UNCHANGED <<pidFile, log, kid, sigs, kidSigs, nextPid, call>>

\* the user starts the tool again in the same directory
Restart(s) ==
    /\ sess[s].pc \in EndedPcs
    /\ Set(s, InitSess)
    /\ UNCHANGED <<pidFile, log, procVars, call>>

\* ------------------------------------------------------------- _launch_background_download
\* line 190: os.makedirs("logs", exist_ok=True)
LaunchMakedirs(s) ==
    /\ sess[s].pc = "l_mkdir"
    /\ \/ /\ Set(s, [sess[s] EXCEPT !.pc = "l_open"])
          /\ UNCHANGED <<pidFile, log, procVars, call>>
       \/ Die(s, "OSError")

\* line 210: open(background_log, "a")
LaunchOpenLog(s) ==
    /\ sess[s].pc = "l_open"
    /\ \/ /\ Set(s, [sess[s] EXCEPT !.pc = "l_spawn"])
          /\ UNCHANGED <<pidFile, log, procVars, call>>
       \/ Die(s, "OSError")

\* lines 211-218: subprocess.Popen(cmd, ..., start_new_session=True).  Popen's
\* constructor first polls the children whose handles were dropped unreaped.
LaunchSpawn(s) ==
    /\ sess[s].pc = "l_spawn"
    /\ \/ /\ nextPid \in Workers
          /\ status' = [w \in Workers |->
                          IF w = nextPid THEN "run"
                          ELSE IF parent[w] = s /\ status[w] = "zombie" THEN "gone"
                          ELSE status[w]]
          /\ parent' = [parent EXCEPT ![nextPid] = s]
          /\ nextPid' = nextPid + 1
          /\ Set(s, [sess[s] EXCEPT !.pc = "s_open", !.proc = nextPid, !.pre = pidFile])
          /\ UNCHANGED <<pidFile, log, kid, sigs, kidSigs, call>>
       \/ Die(s, "OSError")

\* mutant: the file is opened for writing without being truncated
OpenNoTruncate(f) == [exists |-> TRUE, text |-> f.text]

\* open(path, "w") creates the file or truncates it in place
OpenTruncate(f) == [exists |-> TRUE, text |-> <<>>]

\* _save_background_pid, lines 17-18: makedirs, then open(BACKGROUND_PID_FILE, "w")
SaveOpen(s) ==
    /\ sess[s].pc = "s_open"
    /\ \/ /\ pidFile' = OpenTruncate(pidFile)
          /\ Set(s, [sess[s] EXCEPT !.pc = "s_write", !.fd = TRUE])
          /\ UNCHANGED <<log, procVars, call>>
       \/ Die(s, "OSError")

\* mutant: a descriptor that was present is put back instead of replaced
SaveWriteKeepsExisting(s) ==
    /\ sess[s].pc = "s_write"
    /\ pidFile' = IF sess[s].pre.exists THEN sess[s].pre
                  ELSE IF sess[s].fd
                  THEN [exists |-> TRUE, text |-> Str(sess[s].proc)]
                  ELSE pidFile
    /\ Set(s, [sess[s] EXCEPT !.pc = "f_open", !.fd = FALSE, !.report = MsgLaunched,
                              !.nWrites = @ + 1])
    /\ UNCHANGED <<log, procVars, call>>

\* _save_background_pid, line 19 and the end of the with block: the buffered
\* text reaches the file when it is closed; then lines 222-234 print and call
\* the follower
SaveWrite(s) ==
    /\ sess[s].pc = "s_write"
    /\ pidFile' = IF sess[s].fd
                  THEN [exists |-> TRUE,
                        text |-> Overlay(pidFile.text, SavedText(sess[s].proc))]
                  ELSE pidFile
    /\ Set(s, [sess[s] EXCEPT !.pc = "f_open", !.fd = FALSE, !.report = MsgLaunched,
                              !.nWrites = @ + 1])
    /\ UNCHANGED <<log, procVars, call>>

\* ------------------------------------------------------------- _stream_background_log
\* The definition bound at run time is the second one (lines 297-317).

\* whether the follower calls _clear_background_pid after the completion notice
\* (lines 313-314 of the bound definition: it does not)
StreamClearsDescriptor == FALSE

\* line 301: open(log_path, "r")
FollowOpen(s) ==
    /\ sess[s].pc = "f_open"
    /\ Set(s, [sess[s] EXCEPT !.pc = "f_seek"])
    /\ UNCHANGED <<pidFile, log, procVars, call>>

\* line 302: log_file.seek(0, os.SEEK_END)
FollowSeek(s) ==
    /\ sess[s].pc = "f_seek"
    /\ Set(s, [sess[s] EXCEPT !.pc = "f_read", !.pos = log, !.start = log])
    /\ UNCHANGED <<pidFile, log, procVars, call>>

\* lines 304-306: readline; a line is printed, no line leads to the poll
FollowReadline(s) ==
    /\ sess[s].pc = "f_read"
    /\ IF sess[s].pos < log
       THEN Set(s, [sess[s] EXCEPT !.pos = @ + 1, !.out = Append(@, sess[s].pos + 1)])
       ELSE Set(s, [sess[s] EXCEPT !.pc = "f_poll"])
    /\ UNCHANGED <<pidFile, log, procVars, call>>

\* mutant: the follower takes the absence of a new line for the end of the worker
poll_no_wait(w) == TRUE

\* mutant: the follower never learns that the worker has exited
poll_never(w) == FALSE

\* process.poll() is not None: the child is no longer running
poll(w) == status[w] # "run"

\* lines 308, 315: process.poll() waits for the child without blocking (reaping
\* it when it has exited); a running child leads to the sleep and the next readline
FollowPoll(s) ==
    /\ sess[s].pc = "f_poll"
    /\ IF poll(sess[s].proc)
       THEN /\ Set(s, [sess[s] EXCEPT !.pc = "f_drain"])
            /\ status' = [status EXCEPT ![sess[s].proc] = IF @ = "zombie" THEN "gone" ELSE @]
       ELSE /\ Set(s, [sess[s] EXCEPT !.pc = "f_read"])
            /\ UNCHANGED status
    /\ UNCHANGED <<pidFile, log, parent, kid, sigs, kidSigs, nextPid, call>>

\* mutant: what is left in the log when the worker is seen to have exited is dropped
RemainingDropped(pos) == <<>>

\* line 310: log_file.read() returns every line from the read offset to the end
Remaining(pos) == [i \in 1..(log - pos) |-> pos + i]

\* lines 310-312: read the rest of the log and print it
FollowDrain(s) ==
    /\ sess[s].pc = "f_drain"
    /\ Set(s, [sess[s] EXCEPT !.pc = "f_notice", !.pos = log,
                              !.out = @ \o Remaining(sess[s].pos)])
    /\ UNCHANGED <<pidFile, log, procVars, call>>

\* lines 313-314: print the notice, leave the loop; launch returns
FollowFinish(s) ==
    /\ sess[s].pc = "f_notice"
    /\ IF StreamClearsDescriptor
       THEN Set(s, [sess[s] EXCEPT !.pc = "k_exists", !.out = Append(@, Notice),
                                   !.report = MsgFinished, !.ret = "return",
                                   !.expected_pid = sess[s].proc, !.pre = pidFile])
       ELSE Set(s, [sess[s] EXCEPT !.pc = "menu", !.out = Append(@, Notice),
                                   !.report = MsgFinished])
    /\ UNCHANGED <<pidFile, log, procVars, call>>

\* Ctrl+C while following: SIGINT goes to the terminal's foreground process
\* group; the follower catches KeyboardInterrupt (lines 316-317) and launch
\* returns, dropping the Popen handle, whose finaliser polls the child once
FollowInterrupt(s) ==
    /\ sess[s].pc \in FollowPcs
    /\ sigs' = [w \in Workers |->
                  IF w \in Foreground(s) THEN sigs[w] \cup {"SIGINT"} ELSE sigs[w]]
    /\ status' = [status EXCEPT ![sess[s].proc] = IF @ = "zombie" THEN "gone" ELSE @]
    /\ Set(s, [sess[s] EXCEPT !.pc = "menu", !.report = MsgInterrupted])
    /\ UNCHANGED <<pidFile, log, parent, kid, kidSigs, nextPid, call>>

\* ------------------------------------------------------------- _clear_background_pid
\* where the call returns to: its caller returns to the menu, or cancel goes on
\* to the statements after its try block
AfterClear(s) == IF sess[s].ret = "tail" THEN "c_tail" ELSE "menu"

\* lines 33-35: os.path.exists, then the test of expected_pid
ClearExists(s) ==
    /\ sess[s].pc = "k_exists"
    /\ Set(s, [sess[s] EXCEPT !.pc = IF ~pidFile.exists THEN AfterClear(s)
                                     ELSE IF sess[s].expected_pid # None THEN "k_read"
                                     ELSE "k_remove"])
    /\ UNCHANGED <<pidFile, log, procVars, call>>

\* lines 36-42: open, read and parse the file; a file that vanished or does not
\* parse (OSError, ValueError) falls through to the delete
ClearRead(s) ==
    /\ sess[s].pc = "k_read"
    /\ Set(s, [sess[s] EXCEPT !.pc =
                 IF /\ pidFile.exists
                    /\ IsInt(pidFile.text)
                    /\ ClearSkips(ParseInt(pidFile.text), sess[s].expected_pid)
                 THEN AfterClear(s)
                 ELSE "k_remove"])
    /\ UNCHANGED <<pidFile, log, procVars, call>>

\* lines 43-46: os.remove unlinks whatever file is at the path now; a descriptor
\* another process holds open for writing no longer reaches the path
ClearRemove(s) ==
    /\ sess[s].pc = "k_remove"
    /\ pidFile' = NoFile
    /\ sess' = [t \in Sessions |->
                  IF t = s THEN [sess[s] EXCEPT !.pc = AfterClear(s)]
                  ELSE [sess[t] EXCEPT !.fd = FALSE]]
    /\ UNCHANGED <<log, procVars, call>>

\* ------------------------------------------------------------- cancel_background_download
\* what the user types at the prompt: nothing, a pid, or something that is no number
RawInputs == {<<>>, <<NonDigit>>} \cup {Str(p) : p \in UserPids}

\* mutant: the default wins over what the user typed
_prompt_default_first(raw, default) == IF default # <<>> THEN default ELSE raw

\* _prompt, lines 60-63: the stripped input, or the default, or ""
_prompt(raw, default) == IF raw # <<>> THEN raw ELSE default

\* line 263
CancelLoad(s) ==
    /\ sess[s].pc = "c_load"
    /\ Set(s, [sess[s] EXCEPT !.pc = "c_prompt", !.saved_pid = _load_background_pid])
    /\ UNCHANGED <<pidFile, log, procVars, call>>

\* lines 264-274
CancelPrompt(s) ==
    /\ sess[s].pc = "c_prompt"
    /\ \E raw \in RawInputs :
         LET default_display == IF sess[s].saved_pid # None
                                THEN Str(sess[s].saved_pid) ELSE <<>>
             raw_pid == _prompt(raw, default_display)
         IN  Set(s, IF raw_pid = <<>>
                    THEN [sess[s] EXCEPT !.pc = "menu", !.report = MsgNoAction,
                                         !.raw = raw]
                    ELSE IF ~IsInt(raw_pid)
                    THEN [sess[s] EXCEPT !.pc = "menu", !.report = MsgInvalid,
                                         !.raw = raw]
                    ELSE [sess[s] EXCEPT !.pc = "c_alive", !.pid = ParseInt(raw_pid),
                                         !.raw = raw,
                                         !.byDefault = (raw = <<>>),
                                         !.cDead = (raw = <<>> /\ Exited(ParseInt(raw_pid)))])
    /\ UNCHANGED <<pidFile, log, procVars, call>>

\* lines 276-279
CancelCheckAlive(s) ==
    /\ sess[s].pc = "c_alive"
    /\ IF _process_alive(sess[s].pid)
       THEN Set(s, [sess[s] EXCEPT !.pc = "c_kill"])
       ELSE Set(s, [sess[s] EXCEPT !.pc = "k_exists", !.report = MsgNotActive,
                                   !.expected_pid = sess[s].pid, !.ret = "return",
                                   !.pre = pidFile])
    /\ UNCHANGED <<pidFile, log, procVars, call>>

\* the message printed for each result of the signal attempt (lines 283-289)
KillReport(result) ==
    CASE result = "ESRCH" -> MsgNotActive
      [] result = "EPERM" -> MsgForbidden
      [] OTHER -> MsgCancelled

\* lines 281-291: os.killpg(pid, signal.SIGTERM), the report, and the finally
\* clause entering _clear_background_pid(expected_pid=pid)
CancelKill(s) ==
    /\ sess[s].pc = "c_kill"
    /\ LET result == KillpgResult(sess[s].pid)
           hit == IF result = "ok" THEN killpg(sess[s].pid) ELSE {}
       IN  /\ sigs' = [w \in Workers |->
                         IF Leader(w) \in hit /\ status[w] = "run"
                         THEN sigs[w] \cup {"SIGTERM"} ELSE sigs[w]]
           /\ kidSigs' = [w \in Workers |->
                            IF Kid(w) \in hit THEN kidSigs[w] \cup {"SIGTERM"} ELSE kidSigs[w]]
           /\ Set(s, [sess[s] EXCEPT !.pc = "k_exists", !.outcome = result,
                                     !.report = KillReport(result), !.cSent = hit,
                                     !.expected_pid = sess[s].pid, !.ret = "tail",
                                     !.pre = pidFile])
    /\ UNCHANGED <<pidFile, log, status, parent, kid, nextPid, call>>

\* lines 293-294: background_log and proc are no names of this function or of
\* the module, so the call raises NameError
CancelTail(s) ==
    /\ sess[s].pc = "c_tail"
    /\ Die(s, "NameError")

\* ------------------------------------------------------------- the worker processes
\* the worker (or the fetch library under it) prints a line to its stdout/stderr;
\* a launch whose follower has not sought the end yet records the line as skipped
WorkerWrite(w) ==
    /\ status[w] = "run"
    /\ log < MaxLog
    /\ log' = log + 1
    /\ sess' = [s \in Sessions |->
                  IF sess[s].proc = w /\ sess[s].pc \in BeforeSeekPcs
                  THEN [sess[s] EXCEPT !.skipped = @ + 1] ELSE sess[s]]
    /\ UNCHANGED <<pidFile, procVars, call>>

\* the worker spawns a subprocess (one at a time), which stays in its process group
WorkerFork(w) ==
    /\ status[w] = "run"
    /\ kid[w] = "none"
    /\ kid' = [kid EXCEPT ![w] = "run"]
    /\ UNCHANGED <<sess, pidFile, log, status, parent, sigs, kidSigs, nextPid, call>>

\* the worker exits (done, failed, or killed by a signal): it stays in the
\* process table until its parent waits for it; init waits at once.  The
\* launch holding its handle records the length of the log at that moment
WorkerExit(w) ==
    /\ status[w] = "run"
    /\ status' = [status EXCEPT ![w] = IF parent[w] = None THEN "gone" ELSE "zombie"]
    /\ sigs' = [sigs EXCEPT ![w] = {}]
    /\ sess' = [s \in Sessions |->
                  IF sess[s].proc = w /\ sess[s].pc \in LaunchPcs \cup FollowPcs
                  THEN [sess[s] EXCEPT !.exitAt = log] ELSE sess[s]]
    /\ UNCHANGED <<pidFile, log, parent, kid, kidSigs, nextPid, call>>

\* the subprocess exits
KidExit(w) ==
    /\ kid[w] = "run"
    /\ kid' = [kid EXCEPT ![w] = "none"]
    /\ kidSigs' = [kidSigs EXCEPT ![w] = {}]
    /\ UNCHANGED <<sess, pidFile, log, status, parent, sigs, nextPid, call>>

\* ------------------------------------------------------------- specifications
Next ==
    \/ \E s \in Sessions : ChooseLaunch(s)
    \/ \E s \in Sessions : ChooseCancel(s)
    \/ \E s \in Sessions : Quit(s)
    \/ \E s \in Sessions : Restart(s)
    \/ \E s \in Sessions : LaunchMakedirs(s)
    \/ \E s \in Sessions : LaunchOpenLog(s)
    \/ \E s \in Sessions : LaunchSpawn(s)
    \/ \E s \in Sessions : SaveOpen(s)
    \/ \E s \in Sessions : SaveWrite(s)
    \/ \E s \in Sessions : FollowOpen(s)
    \/ \E s \in Sessions : FollowSeek(s)
    \/ \E s \in Sessions : FollowReadline(s)
    \/ \E s \in Sessions : FollowPoll(s)
    \/ \E s \in Sessions : FollowDrain(s)
    \/ \E s \in Sessions : FollowFinish(s)
    \/ \E s \in Sessions : FollowInterrupt(s)
    \/ \E s \in Sessions : CancelLoad(s)
    \/ \E s \in Sessions : CancelPrompt(s)
    \/ \E s \in Sessions : CancelCheckAlive(s)
    \/ \E s \in Sessions : CancelKill(s)
    \/ \E s \in Sessions : CancelTail(s)
    \/ \E s \in Sessions : ClearExists(s)
    \/ \E s \in Sessions : ClearRead(s)
    \/ \E s \in Sessions : ClearRemove(s)
    \/ \E w \in Workers : WorkerWrite(w)
    \/ \E w \in Workers : WorkerFork(w)
    \/ \E w \in Workers : WorkerExit(w)
    \/ \E w \in Workers : KidExit(w)

\* the steps of the sessions and the exit of workers: what takes part in a race
\* on the descriptor store (workers' output and subprocesses left aside)
NextRace ==
    \/ \E s \in Sessions : ChooseLaunch(s)
    \/ \E s \in Sessions : ChooseCancel(s)
    \/ \E s \in Sessions : LaunchMakedirs(s)
    \/ \E s \in Sessions : LaunchOpenLog(s)
    \/ \E s \in Sessions : LaunchSpawn(s)
    \/ \E s \in Sessions : SaveOpen(s)
    \/ \E s \in Sessions : SaveWrite(s)
    \/ \E s \in Sessions : FollowOpen(s)
    \/ \E s \in Sessions : FollowSeek(s)
    \/ \E s \in Sessions : FollowReadline(s)
    \/ \E s \in Sessions : FollowPoll(s)
    \/ \E s \in Sessions : FollowDrain(s)
    \/ \E s \in Sessions : FollowFinish(s)
    \/ \E s \in Sessions : FollowInterrupt(s)
    \/ \E s \in Sessions : CancelLoad(s)
    \/ \E s \in Sessions : CancelPrompt(s)
    \/ \E s \in Sessions : CancelCheckAlive(s)
    \/ \E s \in Sessions : CancelKill(s)
    \/ \E s \in Sessions : CancelTail(s)
    \/ \E s \in Sessions : ClearExists(s)
    \/ \E s \in Sessions : ClearRead(s)
    \/ \E s \in Sessions : ClearRemove(s)
    \/ \E w \in Workers : WorkerExit(w)

\* one interactive session and the workers it launches
Spec == Init /\ [][Next]_vars

\* two interactive sessions interleaved at single file operations
SpecRace == InitRace /\ [][NextRace]_vars

\* one step of the follower's loop in session s (lines 299-315)
FollowStep(s) ==
    \/ FollowOpen(s) \/ FollowSeek(s) \/ FollowReadline(s)
    \/ FollowPoll(s) \/ FollowDrain(s) \/ FollowFinish(s)

\* a session that is following keeps running: its loop sleeps half a second at
\* most between two steps.  Nothing is assumed about the user or the workers.
SpecLive == Init /\ [][Next]_vars /\ \A s \in Sessions : WF_vars(FollowStep(s))

\* ---- _save_background_pid(p) followed by _load_background_pid(), on any store
\* what logs/background.pid may hold before: nothing, no text, text that is no
\* number, a pid, or a number longer than any pid written here
PriorTexts == {<<>>, <<NonDigit>>, <<1, 2, 3>>} \cup {Str(q) : q \in 1..MaxPid}
PriorFiles == {NoFile} \cup {[exists |-> TRUE, text |-> t] : t \in PriorTexts}

InitStore ==
    /\ pidFile \in PriorFiles
    /\ call = NoCall
    /\ log = 0
    /\ status = [w \in Workers |-> "none"]
    /\ parent = [w \in Workers |-> None]
    /\ kid = [w \in Workers |-> "none"]
    /\ sigs = [w \in Workers |-> {}]
    /\ kidSigs = [w \in Workers |-> {}]
    /\ nextPid = FirstPid
    /\ \E p \in 1..MaxPid :
         sess = [s \in Sessions |->
                   IF s = 1 THEN [InitSess EXCEPT !.pc = "s_open", !.op = "save",
                                                  !.proc = p, !.pre = pidFile]
                   ELSE OffSess]

\* the load that follows the save (lines 22-29)
LoadSaved(s) ==
    /\ sess[s].op = "save"
    /\ sess[s].pc = "f_open"
    /\ Set(s, [sess[s] EXCEPT !.pc = "loaded", !.saved_pid = _load_background_pid])
    /\ UNCHANGED <<pidFile, log, procVars, call>>

NextStore ==
    \/ \E s \in Sessions : SaveOpen(s)
    \/ \E s \in Sessions : SaveWrite(s)
    \/ \E s \in Sessions : LoadSaved(s)

SpecStore == InitStore /\ [][NextStore]_vars

\* ---- PlaylistDownloader._determine_range, on its own
\* total_items stays None when extract_info raises (downloader.py lines 64-74)
Unknown == -1

\* mutant: the count asked for is not clamped to the size of the playlist
min_uses_count(a, b) == a

\* min(last_videos_count, total_items), line 83
min(a, b) == IF a <= b THEN a ELSE b

\* downloader.py lines 47-90: the (start, end) pair, end None for no end index
_determine_range(last_videos_count, total_items) ==
    IF last_videos_count <= 0 THEN <<1, None>>
    ELSE IF total_items # Unknown /\ total_items <= 0 THEN <<1, None>>
    ELSE LET limited_count == IF total_items = Unknown THEN last_videos_count
                              ELSE min(last_videos_count, total_items)
         IN  <<1, IF limited_count > 0 THEN limited_count ELSE None>>

InitRange ==
    /\ InitProcs
    /\ sess = [s \in Sessions |-> OffSess]
    /\ \E n \in -1..MaxCount, t \in {Unknown} \cup 0..MaxTotal :
         call = [pc |-> "r_call", last_videos_count |-> n, total_items |-> t,
                 range |-> <<1, None>>]

DetermineRange ==
    /\ call.pc = "r_call"
    /\ call' = [call EXCEPT !.pc = "r_done",
                            !.range = _determine_range(call.last_videos_count,
                                                       call.total_items)]
    /\ UNCHANGED <<sess, pidFile, log, procVars>>

NextRange == DetermineRange

SpecRange == InitRange /\ [][NextRange]_vars

\* ---- load_config, on its own
\* keys a stored record may hold: the default ones and one the tool does not know
StoredKeys == DOMAIN DEFAULT_CONFIG \cup {"playlist_url"}

\* the values a stored record may give to its keys
StoredValues ==
    [download_dir : {"downloads", "videos"},
     cookies_path : {"./cookies.txt", LegacyCookies, "my/cookies.txt"},
     max_quality_height : {0, 720},
     archive_path : {"archive.txt"},
     playlist_url : {"https://example.org/list"}]

\* config/config.json: missing, unreadable (OSError), bytes that are not UTF-8,
\* text that is not JSON, JSON that is no object (array, string, number, null),
\* or a JSON object
StoredFiles ==
    {[kind |-> k, data |-> <<>>] :
       k \in {"missing", "unreadable", "not_utf8", "not_json", "not_object"}}
    \cup {[kind |-> "object", data |-> [k \in dom |-> v[k]]] :
            dom \in SUBSET StoredKeys, v \in StoredValues}

\* line 24: {**DEFAULT_CONFIG, **data}
Merged(data) ==
    [k \in DOMAIN DEFAULT_CONFIG \cup DOMAIN data |->
       IF k \in DOMAIN data THEN data[k] ELSE DEFAULT_CONFIG[k]]

\* lines 26-27: the legacy cookies path becomes the default one
Migrated(merged) ==
    IF merged["cookies_path"] = LegacyCookies
    THEN [merged EXCEPT !["cookies_path"] = DEFAULT_CONFIG["cookies_path"]]
    ELSE merged

\* the exception load_config ends with, "none" when it returns: json.load
\* raises UnicodeDecodeError for bytes that are not UTF-8 and the merge raises
\* TypeError for a value that is no mapping; line 29 catches neither
LoadConfigRaises(file) ==
    CASE file.kind = "not_utf8" -> "UnicodeDecodeError"
      [] file.kind = "not_object" -> "TypeError"
      [] OTHER -> "none"

\* lines 17-30: what load_config returns
load_config(file) ==
    IF file.kind = "object" THEN Migrated(Merged(file.data)) ELSE DEFAULT_CONFIG

InitConfig ==
    /\ InitProcs
    /\ sess = [s \in Sessions |-> OffSess]
    /\ \E f \in StoredFiles :
         call = [pc |-> "g_call", stored |-> f, config |-> DEFAULT_CONFIG,
                 err |-> "none"]

\* main, line 322: config = load_config(), outside any handler: an exception
\* it raises ends the tool
LoadConfig ==
    /\ call.pc = "g_call"
    /\ IF LoadConfigRaises(call.stored) = "none"
       THEN /\ call' = [call EXCEPT !.pc = "g_done",
                                    !.config = load_config(call.stored)]
            /\ UNCHANGED <<sess, pidFile, log, procVars>>
       ELSE /\ call' = [call EXCEPT !.pc = "raised",
                                    !.err = LoadConfigRaises(call.stored)]
            /\ UNCHANGED <<sess, pidFile, log, procVars>>

NextConfig == LoadConfig

SpecConfig == InitConfig /\ [][NextConfig]_vars

\* ---- one job, downloaded in the foreground and by a background worker
\* downloader.py lines 101-142: what download_playlist selects for its
\* parameters p on a playlist of total_items entries
download_playlist(p, total_items) ==
    [cookiefile |-> IF Truthy(p.cookies_path) THEN p.cookies_path ELSE NoText,
     range |-> _determine_range(p.last_videos_count, total_items),
     ceiling |-> IF p.max_quality_height # NoCeiling /\ p.max_quality_height # 0
                    /\ p.max_quality_height > 0
                 THEN p.max_quality_height ELSE NoCeiling,
     archive |-> IF Truthy(p.archive_path) THEN p.archive_path
                 ELSE Txt(FALSE, "logs/download_archive.txt")]

\* cli.py lines 192-208: the values launch puts after each option; the cookies
\* option is added for a non-empty path only
BuildCmd(p) ==
    [playlist_url |-> p.playlist_url,
     download_dir |-> p.download_dir,
     last_videos |-> Str(p.last_videos_count),
     max_quality_height |-> Str(IF p.max_quality_height # NoCeiling
                                THEN p.max_quality_height ELSE 0),
     archive_path |-> IF Truthy(p.archive_path) THEN p.archive_path
                      ELSE Txt(FALSE, DEFAULT_CONFIG["archive_path"]),
     cookies_path |-> IF Truthy(p.cookies_path) THEN p.cookies_path ELSE NoText]

\* argparse takes a word that begins with "-" and goes on (no space in it, no
\* number) for an option, not for the value of the option before it
LooksLikeOption(t) == ~t.none /\ t.dash /\ t.rest # ""

\* worker.py lines 8-18: parse_args ends the worker with a usage error when
\* the word after an option cannot be its value
UsageError(cmd) ==
    \/ LooksLikeOption(cmd.playlist_url)
    \/ LooksLikeOption(cmd.download_dir)
    \/ LooksLikeOption(cmd.archive_path)
    \/ LooksLikeOption(cmd.cookies_path)
    \/ ~IsInt(cmd.last_videos)
    \/ ~IsInt(cmd.max_quality_height)

\* worker.py lines 22-33: the parameters main passes on; an option that was
\* not given has its default, and a ceiling of 0 becomes None
WorkerArgs(cmd) ==
    [playlist_url |-> cmd.playlist_url,
     download_dir |-> cmd.download_dir,
     cookies_path |-> cmd.cookies_path,
     last_videos_count |-> ParseInt(cmd.last_videos),
     max_quality_height |-> IF ParseInt(cmd.max_quality_height) # 0
                            THEN ParseInt(cmd.max_quality_height) ELSE NoCeiling,
     archive_path |-> cmd.archive_path]

\* the texts the user or the configuration file may give
Texts(r) == {Txt(FALSE, r), Txt(TRUE, r)}

\* the job configurations: URL, directory, cookies path or none, count,
\* quality ceiling with 0 and none, archive path with none and ""
Jobs ==
    [playlist_url : {Txt(FALSE, "https://example.org/list")},
     download_dir : Texts("videos"),
     cookies_path : {NoText} \cup Texts("cookies.txt"),
     last_videos_count : 0..MaxCount,
     max_quality_height : {NoCeiling, 0, 720, 1080},
     archive_path : {NoText, Txt(FALSE, "")} \cup Texts("archive.txt")]

InitJob ==
    /\ InitProcs
    /\ sess = [s \in Sessions |-> OffSess]
    /\ \E j \in Jobs, t \in {Unknown} \cup 0..MaxTotal :
         call = [pc |-> "j_call", job |-> j, total_items |-> t, cmd |-> NoCmd,
                 args |-> NoJob, fg |-> NoSelection, bg |-> NoSelection]

\* cli.py lines 170-178: the foreground branch of start_download_menu
JobForeground ==
    /\ call.pc = "j_call"
    /\ call' = [call EXCEPT !.pc = "j_cmd",
                            !.fg = download_playlist(call.job, call.total_items)]
    /\ UNCHANGED <<sess, pidFile, log, procVars>>

\* cli.py lines 160-168, 192-208: the background branch builds the command line
JobBuildCmd ==
    /\ call.pc = "j_cmd"
    /\ call' = [call EXCEPT !.pc = "j_parse", !.cmd = BuildCmd(call.job)]
    /\ UNCHANGED <<sess, pidFile, log, procVars>>

\* worker.py lines 22, 25: the worker parses its command line
JobParseArgs ==
    /\ call.pc = "j_parse"
    /\ call' = IF UsageError(call.cmd)
               THEN [call EXCEPT !.pc = "j_usage"]
               ELSE [call EXCEPT !.pc = "j_main", !.args = WorkerArgs(call.cmd)]
    /\ UNCHANGED <<sess, pidFile, log, procVars>>

\* worker.py lines 26-33: the worker calls download_playlist
JobWorkerMain ==
    /\ call.pc = "j_main"
    /\ call' = [call EXCEPT !.pc = "j_done",
                            !.bg = download_playlist(call.args, call.total_items)]
    /\ UNCHANGED <<sess, pidFile, log, procVars>>

NextJob ==
    \/ JobForeground
    \/ JobBuildCmd
    \/ JobParseArgs
    \/ JobWorkerMain

SpecJob == InitJob /\ [][NextJob]_vars

\* ------------------------------------------------------------- properties
\* the operation the session ran last has ended (back at the menu, or the
\* session ended) and no later operation has started
LaunchFollowed(s) == sess[s].op = "launch" /\ sess[s].pc = "menu"
CancelEnded(s) == sess[s].op = "cancel" /\ sess[s].pc \in {"menu", "c_tail", "crashed"}
\* _clear_background_pid(expected_pid=...) has been called and has returned
ClearReturned(s) ==
    /\ sess[s].expected_pid # None
    /\ sess[s].pc \in {"menu", "c_tail", "crashed"}

\* C1: when the follower returns after observing that the worker has exited,
\* the descriptor store no longer holds the worker's pid.
C1_FollowerClearsDescriptor ==
    \A s \in Sessions :
        (LaunchFollowed(s) /\ sess[s].report = MsgFinished)
            => ~Holds(pidFile, sess[s].proc)

\* C2: with two sessions interleaved at single file operations, once a
\* clear(expected=p) of one session and the launch of a different job q of the
\* other have both completed, the store still holds q.
C2_ClearSparesConcurrentLaunch ==
    \A s \in Sessions : \A t \in Sessions \ {s} :
        ( /\ sess[s].op = "cancel"
          /\ ClearReturned(s)
          /\ sess[t].op = "launch"
          /\ sess[t].pc \in FollowPcs \cup {"menu"}
          /\ sess[t].proc # sess[s].expected_pid )
            => Holds(pidFile, sess[t].proc)

C4_LaunchReturnsWithoutWaiting ==
    \A s \in Sessions : LaunchFollowed(s) => sess[s].report = MsgLaunched

\* C4 (amended): a successful launch returns to its caller only when the
\* follower it starts has ended: after the follower saw the worker exited, or
\* after a user interrupt (the worker may then still be running).
C4_LaunchReturnsAfterFollowing ==
    \A s \in Sessions :
        LaunchFollowed(s) =>
            \/ sess[s].report = MsgFinished /\ Exited(sess[s].proc)
            \/ sess[s].report = MsgInterrupted

\* launch has returned after an interrupt and its worker is still running
C4_Witness ==
    \E s \in Sessions :
        /\ LaunchFollowed(s)
        /\ sess[s].report = MsgInterrupted
        /\ status[sess[s].proc] = "run"

\* C5: a user interrupt at any point of the follower stops the follower and
\* changes neither the processes (no signal reaches the worker or its
\* subprocess, none of them stops) nor the descriptor store.
C5_InterruptLeavesWorker ==
    [][\A s \in Sessions :
          (sess[s].pc \in FollowPcs /\ sess'[s].report = MsgInterrupted)
              => /\ sess'[s].pc = "menu"
                 /\ \A w \in Workers :
                       /\ status[w] = "run" => status'[w] = "run"
                       /\ sigs'[w] = sigs[w]
                 /\ kid' = kid /\ kidSigs' = kidSigs
                 /\ pidFile' = pidFile]_vars

\* following was interrupted; the worker runs and the descriptor holds its pid
C5_Witness ==
    \E s \in Sessions :
        /\ LaunchFollowed(s)
        /\ sess[s].report = MsgInterrupted
        /\ status[sess[s].proc] = "run"
        /\ kid[sess[s].proc] = "run"
        /\ Holds(pidFile, sess[s].proc)

\* C6: launch is all-or-nothing: a failure of the directory creation, of the
\* log-file open or of the spawn propagates and leaves the store as it was; and
\* whenever launch stops being in its launching part (by an error or by going
\* on to follow) with a worker of its own running, the store holds that pid.
C6_LaunchAllOrNothing ==
    [][\A s \in Sessions :
          /\ (sess[s].pc \in {"l_mkdir", "l_open", "l_spawn"} /\ sess'[s].pc = "crashed")
                => (sess'[s].err = "OSError" /\ pidFile' = pidFile)
          /\ ( /\ sess[s].pc \in LaunchPcs
               /\ sess'[s].pc \in {"crashed", "f_open"}
               /\ sess'[s].proc # None
               /\ status'[sess'[s].proc] = "run" )
                => Holds(pidFile', sess'[s].proc)]_vars

\* C7: each successful launch writes the descriptor store exactly once, and
\* the store then holds the pid of the worker just spawned, whatever it held.
C7_OneWriteOfNewPid ==
    \A s \in Sessions :
        /\ sess[s].pc \in LaunchPcs => sess[s].nWrites = 0
        /\ (sess[s].op = "launch" /\ sess[s].pc \in FollowPcs \cup {"menu"})
              => (sess[s].nWrites = 1 /\ Holds(pidFile, sess[s].proc))

\* a launch has just replaced the pid of an earlier job by its own
C7_Witness ==
    \E s \in Sessions : \E q \in Workers :
        /\ sess[s].pc = "f_open"
        /\ q # sess[s].proc
        /\ Holds(sess[s].pre, q)
        /\ Holds(pidFile, sess[s].proc)

\* C8: if the descriptor holds p and process p is dead (it has exited), cancel
\* with the default target reports "not active", signals no process, and the
\* descriptor file no longer exists afterwards.
C8_CancelOfDeadJob ==
    \A s \in Sessions :
        (CancelEnded(s) /\ sess[s].cDead)
            => /\ sess[s].report = MsgNotActive
               /\ sess[s].outcome = "none"
               /\ sess[s].cSent = {}
               /\ ~pidFile.exists

C10_SignalReachesGroup ==
    [][\A s \in Sessions :
          ( /\ sess[s].pc = "c_kill"
            /\ sess'[s].pc # "c_kill"
            /\ sess[s].pid \in Workers
            /\ status[sess[s].pid] = "run"
            /\ sess'[s].outcome = "ok" )
              => /\ "SIGTERM" \in sigs'[sess[s].pid]
                 /\ Leader(sess[s].pid) \in sess'[s].cSent
                 /\ kid[sess[s].pid] = "run"
                       => /\ "SIGTERM" \in kidSigs'[sess[s].pid]
                          /\ Kid(sess[s].pid) \in sess'[s].cSent]_vars

\* cancel has just signalled a running worker and its running subprocess
C10_Witness ==
    \E s \in Sessions :
        /\ sess[s].pc = "k_exists"
        /\ sess[s].outcome = "ok"
        /\ sess[s].cSent = {Leader(sess[s].pid), Kid(sess[s].pid)}
        /\ "SIGTERM" \in sigs[sess[s].pid]
        /\ "SIGTERM" \in kidSigs[sess[s].pid]

\* C11: _process_alive(p) is false in every state reached after process p has
\* exited, also while the session that spawned p has not waited for it.
C11_ExitedIsNotAlive ==
    \A p \in Workers : Exited(p) => ~_process_alive(p)

\* C18: a cancel whose target passed the liveness check ends normally in each of
\* the three outcomes of the signal attempt (sent, no such process, not
\* permitted): it returns to the menu loop and never ends in an unhandled error.
C18_CancelEndsNormally ==
    \A s \in Sessions :
      (sess[s].op = "cancel" /\ sess[s].outcome # "none") => sess[s].pc # "crashed"

\* cancel could resolve no target pid: nothing typed and no parseable
\* descriptor, or something typed that is no integer
NoTarget(s) ==
    \/ sess[s].raw = <<>> /\ sess[s].saved_pid = None
    \/ sess[s].raw # <<>> /\ ~IsInt(sess[s].raw)

\* C12: a cancel that can resolve no target pid reports it, sends no signal
\* and leaves the descriptor file exactly as it was when cancel was entered.
C12_NoTargetNoEffect ==
    \A s \in Sessions :
      (CancelEnded(s) /\ sess[s].report # "none" /\ NoTarget(s)) =>
        /\ sess[s].report \in {MsgNoAction, MsgInvalid}
        /\ sess[s].pc = "menu"
        /\ sess[s].outcome = "none"
        /\ sess[s].cSent = {}
        /\ pidFile = sess[s].pre

\* a cancel given a non-number ended while the descriptor holds a running worker
C12_Witness ==
    \E s \in Sessions :
      /\ CancelEnded(s) /\ NoTarget(s)
      /\ sess[s].report = MsgInvalid
      /\ \E w \in Workers : status[w] = "run" /\ Holds(pidFile, w)

\* C13: following terminates.  Once the worker has exited (the log, bounded by
\* MaxLog, stops growing), the follower leaves its polling loop and returns:
\* with the completion notice, or earlier with the interrupt notice when the
\* user pressed Ctrl+C.
C13_FollowingTerminates ==
    \A s \in Sessions :
      (sess[s].pc \in FollowPcs /\ Exited(sess[s].proc))
        ~> (sess[s].pc = "menu" /\ sess[s].report \in {MsgFinished, MsgInterrupted})

\* the follower returned with the completion notice after reading lines that
\* were appended while it followed
C13_Witness ==
    \E s \in Sessions :
      /\ sess[s].pc = "menu" /\ sess[s].report = MsgFinished
      /\ Exited(sess[s].proc)
      /\ sess[s].pos > sess[s].start

\* C14: for every positive integer p, _save_background_pid(p) followed by
\* _load_background_pid() returns p, whatever the store held before.
C14_SaveThenLoad ==
    \A s \in Sessions :
      (sess[s].op = "save" /\ sess[s].pc = "loaded") => sess[s].saved_pid = sess[s].proc

\* a one-digit pid was saved over a longer text and loaded back
C14_Witness ==
    \E s \in Sessions :
      /\ sess[s].op = "save" /\ sess[s].pc = "loaded"
      /\ sess[s].pre.exists
      /\ Len(sess[s].pre.text) > Len(Str(sess[s].proc))
      /\ sess[s].saved_pid = sess[s].proc

\* C15: for a count n > 0 and a detected size t > 0 the end index is min(n, t),
\* never beyond t; for n <= 0 or t = 0 there is no end index (whole playlist);
\* for n > 0 and a size that cannot be determined the end index is n.
C15_RangeClamped ==
    call.pc = "r_done" =>
      LET n == call.last_videos_count
          t == call.total_items
          end == call.range[2]
      IN  /\ call.range[1] = 1
          /\ (n > 0 /\ t # Unknown /\ t > 0) =>
               (end # None /\ end <= n /\ end <= t /\ (end = n \/ end = t))
          /\ (n <= 0 \/ t = 0) => end = None
          /\ (n > 0 /\ t = Unknown) => end = n

\* more videos were asked for than the playlist holds
C15_Witness ==
    /\ call.pc = "r_done"
    /\ call.total_items > 0
    /\ call.last_videos_count > call.total_items
    /\ call.range[2] = call.total_items

\* C16: load_config returns a record with every default key, holding the
\* stored value where the stored record has the key and the default otherwise,
\* except that a stored cookies path "config/cookies.txt" becomes the default
\* path; a missing or malformed file yields exactly the defaults.
C16_LoadConfigTotal ==
    call.pc \in {"g_done", "raised"} =>
        LET file == call.stored
            cfg == call.config
        IN  /\ call.pc = "g_done"
            /\ IF file.kind = "object"
               THEN /\ DOMAIN DEFAULT_CONFIG \subseteq DOMAIN cfg
                    /\ \A k \in DOMAIN DEFAULT_CONFIG :
                         cfg[k] = IF k \notin DOMAIN file.data THEN DEFAULT_CONFIG[k]
                                  ELSE IF k = "cookies_path" /\ file.data[k] = LegacyCookies
                                  THEN DEFAULT_CONFIG[k]
                                  ELSE file.data[k]
               ELSE cfg = DEFAULT_CONFIG

\* the follower of session s has printed the completion notice
Noticed(s) == \E i \in 1..Len(sess[s].out) : sess[s].out[i] = Notice

\* C17: drain before completion.  Every line appended to the log after the
\* follower's seek-to-end and before the worker exited is printed before the
\* completion notice, in log order, and no line of the log is printed after it.
C17_DrainBeforeNotice ==
    \A s \in Sessions :
      Noticed(s) =>
        LET n == Len(sess[s].out)
        IN  /\ sess[s].out[n] = Notice
            /\ \A i \in 1..(n - 1) : sess[s].out[i] = sess[s].start + i
            /\ sess[s].start + (n - 1) >= sess[s].exitAt

\* the notice followed two lines the worker wrote after the seek
C17_Witness ==
    \E s \in Sessions :
      /\ Noticed(s)
      /\ sess[s].exitAt >= sess[s].start + 2
      /\ Len(sess[s].out) >= 3

\* C19: no output of the newly launched worker is lost.  When following was not
\* interrupted and ended with the completion notice, every line the worker
\* appended since it was spawned has been printed: none was appended before
\* the follower sought the end of the log and so skipped.
C19_NoWorkerLineLost ==
    \A s \in Sessions :
      (sess[s].op = "launch" /\ Noticed(s)) => sess[s].skipped = 0

\* C20: whenever the session is back at the menu, every worker it launched
\* that is still running is the one recorded in the descriptor store, so that
\* a cancel taking the default target reaches it.
C20_RunningWorkerIsRecorded ==
    \A s \in Sessions :
      sess[s].pc = "menu" =>
        \A w \in Workers :
          (status[w] = "run" /\ parent[w] = s) => Holds(pidFile, w)

\* C21: for every job configuration the background path (command line built
\* by launch, parsed by the worker) calls download_playlist with parameters
\* that select the same cookies file, playlist range, format ceiling and
\* archive as the foreground path selects for the same configuration.
C21_BackgroundSelectsAsForeground ==
    call.pc \in {"j_done", "j_usage"} =>
      /\ call.pc = "j_done"
      /\ call.bg = call.fg

====
